---- MODULE Spec2Model ----
(***************************************************************************)
(* Model of the pomodoro command-line timer (pranavek/pomodoro).           *)
(*                                                                         *)
(* The session timer (pomo/timer.go) is modelled at the granularity of the *)
(* primary goroutine's blocking points: the select inside countdown, the   *)
(* time.Sleep of the no-countdown mode and the ReadString of the continue  *)
(* prompt.  Every skip listener goroutine started by countdown is a        *)
(* separate reader of the process's standard input; the terminal hands     *)
(* each typed line to exactly one of the readers blocked on it.            *)
(* Durations are counted in minutes (every configured duration is a whole  *)
(* number of minutes and the ticker period is one minute).                 *)
(***************************************************************************)
EXTENDS Integers, Sequences, FiniteSets, TLC

\* ------------------------------------------------------------------ bounds
MaxWorkMinutes == 2        \* work durations explored: 1..MaxWorkMinutes
ShortMinutes == 1          \* short break duration explored
LongMinutes == 2           \* long break duration explored
MaxPomosUntilLong == 2     \* PomosUntilLongBreak explored: 1..MaxPomosUntilLong
MaxInput == 3              \* lines the user types during one run
MaxPending == 1            \* typed lines not yet read by any reader

VARIABLES
    pc,          \* position of the primary goroutine / process
    cmd,         \* command of the current (or last) invocation
    config,      \* pomo.Config of the current timer run
    kind,        \* interval being run: "work", "short", "long"
    interval,    \* number of countdown calls made so far in this run
    remaining,   \* countdown's local `remaining` (minutes)
    tickPending, \* ticker.C holds an undelivered tick
    pomoCount,   \* Run's local pomoCount
    carryOn,     \* Run's local carryOn
    stats,       \* *SessionStats of the run
    alive,       \* intervals whose listener goroutine is still reading stdin
    signalled,   \* intervals whose skipChan holds a skip signal
    stdin,       \* lines typed and not yet read
    typed,       \* number of lines typed during this run
    now,         \* wall clock, minutes
    store,       \* rows of the sessions table, in insertion order
    saveCalls,   \* records passed to SaveRecord by this invocation
    console,     \* messages printed when the command ends
    exitCode,    \* process exit status, -1 while running
    hist,        \* intervals ended in this run: [kind, completed, pending]:
                 \* pending = its skipChan held a signal when countdown returned
    asked,       \* times the continue question was printed in this run
    storageErr,  \* NewStorage returned an error in this invocation
    res,         \* what the last analytics function returned, with its inputs
    fs           \* ~/.pomo: whether it exists, and the goals.json in it

vars == <<pc, cmd, config, kind, interval, remaining, tickPending, pomoCount,
          carryOn, stats, alive, signalled, stdin, typed, now, store,
          saveCalls, console, exitCode, hist, asked, storageErr, res, fs>>

\* ------------------------------------------------------------- user input
EOF == "EOF"
Lines == {"s", " S ", "y", "Yes", "n", "no", "x", EOF}

\* strings.ToLower(strings.TrimSpace(line))
Normalize(line) ==
    CASE line = " S " -> "s"
      [] line = "Yes" -> "yes"
      [] OTHER -> line

\* --------------------------------------------------------- configuration
\* rootCmd.PreRunE: the ranges accepted for the flags
MinMinutes == 1
MaxWorkFlag == 120
MaxShortFlag == 60
MaxLongFlag == 120
MaxCountFlag == 10

ValidConfig(c) ==
    /\ ~(c.WorkDuration < MinMinutes \/ c.WorkDuration > MaxWorkFlag)
    /\ ~(c.ShortBreakDuration < MinMinutes \/ c.ShortBreakDuration > MaxShortFlag)
    /\ ~(c.LongBreakDuration < MinMinutes \/ c.LongBreakDuration > MaxLongFlag)
    /\ ~(c.PomosUntilLongBreak < 1 \/ c.PomosUntilLongBreak > MaxCountFlag)

Configs ==
    [WorkDuration : 1..MaxWorkMinutes,
     ShortBreakDuration : {ShortMinutes},
     LongBreakDuration : {LongMinutes},
     PomosUntilLongBreak : 1..MaxPomosUntilLong,
     ShowCountdown : BOOLEAN]

NoConfig ==
    [WorkDuration |-> 1, ShortBreakDuration |-> 1, LongBreakDuration |-> 1,
     PomosUntilLongBreak |-> 1, ShowCountdown |-> TRUE]

\* NewSessionStats
NewSessionStats(t) ==
    [CompletedPomos |-> 0, SkippedSessions |-> 0, TotalWorkTime |-> 0,
     TotalBreakTime |-> 0, StartTime |-> t]

\* ------------------------------------------------ pure parts of the timer
\* promptContinue with the affirmative test inverted
promptContinue_YesStops(line) ==
    IF line = EOF THEN "stop"
    ELSE LET response == Normalize(line) IN
         IF response = "y" \/ response = "yes" THEN "stop"
         ELSE IF response = "n" \/ response = "no" THEN "continue"
         ELSE "again"

\* promptContinue with every unrecognised answer taken as a refusal
promptContinue_InvalidStops(line) ==
    IF line = EOF THEN "stop"
    ELSE LET response == Normalize(line) IN
         IF response = "y" \/ response = "yes" THEN "continue" ELSE "stop"

\* promptContinue: what one response does
promptContinue(line) ==
    IF line = EOF THEN "stop"
    ELSE LET response == Normalize(line) IN
         IF response = "y" \/ response = "yes" THEN "continue"
         ELSE IF response = "n" \/ response = "no" THEN "stop"
         ELSE "again"

\* the listener goroutine of countdown: does this line make it send a skip?
ListenerSkips(line) == line # EOF /\ Normalize(line) = "s"

\* the listener going on reading after it has sent its signal
ListenerEnds_KeepsListening(line) == line = EOF

\* the listener goroutine ends on a read error or after trying to send
ListenerEnds(line) == line = EOF \/ ListenerSkips(line)

\* one skip channel shared by all countdowns of the run
SkipChanOf_Shared(l, current) == current

\* countdown, line 149: the channel the listener of interval l sends on is
\* the one made by its own countdown call, whatever interval is running now
SkipChanOf(l, current) == l

\* countdown: is a listener started for the interval?
StartsListener(c) == c.ShowCountdown

\* runWorkSession charging the work time whatever the countdown returned
runWorkSession_ChargesSkipped(s, c, completed) ==
    IF completed
    THEN [s EXCEPT !.TotalWorkTime = @ + c.WorkDuration]
    ELSE [s EXCEPT !.TotalWorkTime = @ + c.WorkDuration,
                   !.SkippedSessions = @ + 1]

\* runWorkSession: effect on the stats of the countdown's result
runWorkSession(s, c, completed) ==
    IF completed
    THEN [s EXCEPT !.TotalWorkTime = @ + c.WorkDuration]
    ELSE [s EXCEPT !.SkippedSessions = @ + 1]

\* runBreak charging the break time whatever the countdown returned
runBreak_ChargesSkipped(s, duration, completed) ==
    IF completed
    THEN [s EXCEPT !.TotalBreakTime = @ + duration]
    ELSE [s EXCEPT !.TotalBreakTime = @ + duration, !.SkippedSessions = @ + 1]

\* runBreak: effect on the stats of the countdown's result
runBreak(s, duration, completed) ==
    IF completed
    THEN [s EXCEPT !.TotalBreakTime = @ + duration]
    ELSE [s EXCEPT !.SkippedSessions = @ + 1]

\* the in-cycle counter advancing for a skipped work session as well
PomoCountAfterWork_Always(n, completed) == n + 1

\* Run, lines 278-284: the counters after a work session
PomoCountAfterWork(n, completed) == IF completed THEN n + 1 ELSE n

CompletedAfterWork(s, completed) ==
    IF completed THEN [s EXCEPT !.CompletedPomos = @ + 1] ELSE s

\* the long break taken one pomodoro late
BreakKind_Strict(n, c) == IF n > c.PomosUntilLongBreak THEN "long" ELSE "short"

\* Run, lines 287-293: which break follows
BreakKind(n, c) == IF n >= c.PomosUntilLongBreak THEN "long" ELSE "short"

BreakDuration(k, c) ==
    IF k = "long" THEN c.LongBreakDuration ELSE c.ShortBreakDuration

\* the in-cycle counter carried over a long break
PomoCountAfterBreak_NoReset(n, k) == n

\* Run, line 289: the in-cycle counter after a break
PomoCountAfterBreak(n, k) == IF k = "long" THEN 0 ELSE n

\* Run, line 302: is the run saved?
ShouldSave(s) == s.CompletedPomos > 0

\* Run, lines 305-314
BuildRecord(s, t) ==
    [Date |-> s.StartTime, CompletedPomos |-> s.CompletedPomos,
     SkippedSessions |-> s.SkippedSessions, WorkTime |-> s.TotalWorkTime,
     BreakTime |-> s.TotalBreakTime, Duration |-> t - s.StartTime]

\* Run, lines 303-320: what the run does when NewStorage fails
RunStorageFailure == [console |-> {"summary", "goodbye"}, exitCode |-> 0]

\* reportCmd, lines 33-37: what report does when NewStorage fails
ReportStorageFailure == [console |-> {"errStorage"}, exitCode |-> 1]

\* no analytics function has been applied
NoResult == [op |-> "none"]

\* goals.json does not exist; the home directory has no .pomo
NoGoalsFile == [Enabled |-> FALSE, DailyPomosGoal |-> 0, WeeklyPomosGoal |-> 0,
                exists |-> FALSE]
NoPomoDir == [dir |-> FALSE, goals |-> NoGoalsFile]

\* ------------------------------------------------------------------- Init
Running == pc \in {"select", "sleep", "prompt"}

Init ==
    /\ pc = "idle"
    /\ cmd = "none"
    /\ config = NoConfig
    /\ kind = "work"
    /\ interval = 0
    /\ remaining = 0
    /\ tickPending = FALSE
    /\ pomoCount = 0
    /\ carryOn = TRUE
    /\ stats = NewSessionStats(0)
    /\ alive = {}
    /\ signalled = {}
    /\ stdin = <<>>
    /\ typed = 0
    /\ now = 0
    /\ store = <<>>
    /\ saveCalls = <<>>
    /\ console = {}
    /\ exitCode = -1
    /\ hist = <<>>
    /\ asked = 0
    /\ storageErr = FALSE
    /\ res = NoResult
    /\ fs = NoPomoDir

\* countdown up to its first blocking point
BeginCountdown(k, duration) ==
    /\ kind' = k
    /\ interval' = interval + 1
    /\ remaining' = duration
    /\ tickPending' = FALSE
    /\ IF StartsListener(config')
       THEN /\ alive' = alive \cup {interval + 1}
            /\ pc' = "select"
       ELSE /\ alive' = alive
            /\ pc' = "sleep"

\* rootCmd: a new process runs the timer
StartRun(c) ==
    /\ pc = "idle"
    /\ ValidConfig(c)
    /\ cmd' = "timer"
    /\ config' = c
    /\ pomoCount' = 0
    /\ carryOn' = TRUE
    /\ stats' = NewSessionStats(now)
    /\ alive' = IF StartsListener(c) THEN {1} ELSE {}
    /\ signalled' = {}
    /\ stdin' = <<>>
    /\ typed' = 0
    /\ saveCalls' = <<>>
    /\ console' = {}
    /\ exitCode' = -1
    /\ hist' = <<>>
    /\ asked' = 0
    /\ storageErr' = FALSE
    /\ kind' = "work"
    /\ interval' = 1
    /\ remaining' = c.WorkDuration
    /\ tickPending' = FALSE
    /\ pc' = IF StartsListener(c) THEN "select" ELSE "sleep"
    /\ UNCHANGED <<now, store>>
    /\ UNCHANGED <<res, fs>>

\* Run after runWorkSession's countdown returned
EndWork(completed) ==
    LET s1 == runWorkSession(stats, config, completed)
        n1 == PomoCountAfterWork(pomoCount, completed)
        k  == BreakKind(n1, config)
    IN /\ stats' = CompletedAfterWork(s1, completed)
       /\ pomoCount' = n1
       /\ hist' = Append(hist, [kind |-> "work", completed |-> completed,
                                pending |-> interval \in signalled])
       /\ UNCHANGED <<config>>
       /\ BeginCountdown(k, BreakDuration(k, config))
       /\ UNCHANGED <<cmd, carryOn, store, saveCalls, console, exitCode, asked,
                      storageErr>>

\* Run after runBreak's countdown returned: on to the continue prompt
EndBreak(completed) ==
    /\ stats' = runBreak(stats, BreakDuration(kind, config), completed)
    /\ pomoCount' = PomoCountAfterBreak(pomoCount, kind)
    /\ hist' = Append(hist, [kind |-> kind, completed |-> completed,
                             pending |-> interval \in signalled])
    /\ pc' = "prompt"
    /\ asked' = asked + 1
    /\ UNCHANGED <<cmd, config, kind, interval, remaining, tickPending, carryOn,
                   alive, store, saveCalls, console, exitCode, storageErr>>

EndInterval(completed) ==
    IF kind = "work" THEN EndWork(completed) ELSE EndBreak(completed)

\* the ticker of the running countdown fires: one minute has passed
TickerFire ==
    /\ pc = "select"
    /\ ~tickPending
    /\ tickPending' = TRUE
    /\ now' = now + 1
    /\ UNCHANGED <<pc, cmd, config, kind, interval, remaining, pomoCount,
                   carryOn, stats, alive, signalled, stdin, typed, store,
                   saveCalls, console, exitCode, hist, asked, storageErr>>
    /\ UNCHANGED <<res, fs>>

\* countdown's select takes the tick
SelectTick ==
    /\ pc = "select"
    /\ remaining > 0
    /\ tickPending
    /\ IF remaining - 1 > 0
       THEN /\ remaining' = remaining - 1
            /\ tickPending' = FALSE
            /\ UNCHANGED <<pc, cmd, config, kind, interval, pomoCount, carryOn,
                           stats, alive, store, saveCalls, console, exitCode,
                           hist, asked, storageErr>>
       ELSE EndInterval(TRUE)
    /\ UNCHANGED <<signalled, stdin, typed, now>>
    /\ UNCHANGED <<res, fs>>

\* countdown's select takes the skip signal
SelectSkip ==
    /\ pc = "select"
    /\ remaining > 0
    /\ interval \in signalled
    /\ signalled' = signalled \ {interval}
    /\ EndInterval(FALSE)
    /\ UNCHANGED <<stdin, typed, now>>
    /\ UNCHANGED <<res, fs>>

\* countdown without display: time.Sleep(duration) returns
SleepDone ==
    /\ pc = "sleep"
    /\ now' = now + remaining
    /\ EndInterval(TRUE)
    /\ UNCHANGED <<signalled, stdin, typed>>
    /\ UNCHANGED <<res, fs>>

\* the user types a line (or Ctrl-D) on the terminal of the running timer
UserType(line) ==
    /\ Running
    /\ typed < MaxInput
    /\ Len(stdin) < MaxPending
    /\ stdin' = Append(stdin, line)
    /\ typed' = typed + 1
    /\ UNCHANGED <<pc, cmd, config, kind, interval, remaining, tickPending,
                   pomoCount, carryOn, stats, alive, signalled, now, store,
                   saveCalls, console, exitCode, hist, asked, storageErr>>
    /\ UNCHANGED <<res, fs>>

\* the listener goroutine started by the countdown of interval l reads a line
ListenerRead(l) ==
    /\ Running
    /\ l \in alive
    /\ stdin # <<>>
    /\ LET line == Head(stdin) IN
         /\ stdin' = Tail(stdin)
         /\ alive' = IF ListenerEnds(line) THEN alive \ {l} ELSE alive
         /\ signalled' = IF ListenerSkips(line)
                         THEN signalled \cup {SkipChanOf(l, interval)}
                         ELSE signalled
    /\ UNCHANGED <<pc, cmd, config, kind, interval, remaining, tickPending,
                   pomoCount, carryOn, stats, typed, now, store, saveCalls,
                   console, exitCode, hist, asked, storageErr>>
    /\ UNCHANGED <<res, fs>>

\* Run after the loop: summary, save, good bye
Terminate(storageOK, saveOK) ==
    /\ pc' = "done"
    /\ carryOn' = FALSE
    /\ alive' = {}
    /\ IF ShouldSave(stats)
       THEN IF storageOK
            THEN LET record == BuildRecord(stats, now) IN
                 /\ saveCalls' = Append(saveCalls, record)
                 /\ store' = IF saveOK THEN Append(store, record) ELSE store
                 /\ console' = {"summary", "goodbye"}
                               \cup (IF saveOK THEN {"saved"} ELSE {"warnSave"})
                 /\ exitCode' = 0
                 /\ storageErr' = FALSE
            ELSE /\ console' = RunStorageFailure.console
                 /\ exitCode' = RunStorageFailure.exitCode
                 /\ storageErr' = TRUE
                 /\ UNCHANGED <<saveCalls, store>>
       ELSE /\ console' = {"summary", "goodbye"}
            /\ exitCode' = 0
            /\ UNCHANGED <<saveCalls, store, storageErr>>
    /\ UNCHANGED <<cmd, config, kind, interval, remaining, tickPending,
                   pomoCount, stats, hist, asked>>

\* promptContinue reads a response
PromptRead ==
    /\ pc = "prompt"
    /\ stdin # <<>>
    /\ stdin' = Tail(stdin)
    /\ LET answer == promptContinue(Head(stdin)) IN
         CASE answer = "again" ->
                /\ asked' = asked + 1
                /\ UNCHANGED <<pc, cmd, config, kind, interval, remaining,
                               tickPending, pomoCount, carryOn, stats, alive,
                               store, saveCalls, console, exitCode, hist,
                               storageErr>>
           [] answer = "continue" ->
                /\ UNCHANGED <<config>>
                /\ BeginCountdown("work", config.WorkDuration)
                /\ UNCHANGED <<cmd, pomoCount, carryOn, stats, store, saveCalls,
                               console, exitCode, hist, asked, storageErr>>
           [] answer = "stop" ->
                \E storageOK \in BOOLEAN, saveOK \in BOOLEAN :
                    /\ ShouldSave(stats) \/ (storageOK /\ saveOK)
                    /\ storageOK \/ saveOK
                    /\ Terminate(storageOK, saveOK)
    /\ UNCHANGED <<signalled, typed, now>>
    /\ UNCHANGED <<res, fs>>

\* the report command: open the store, load the records, print the report
ReportCmd(storageOK, loadOK) ==
    /\ pc = "idle"
    /\ cmd' = "report"
    /\ pc' = "done"
    /\ saveCalls' = <<>>
    /\ storageErr' = ~storageOK
    /\ IF storageOK
       THEN /\ console' = IF loadOK THEN {"report"} ELSE {"errLoad"}
            /\ exitCode' = IF loadOK THEN 0 ELSE 1
       ELSE /\ console' = ReportStorageFailure.console
            /\ exitCode' = ReportStorageFailure.exitCode
    /\ UNCHANGED <<config, kind, interval, remaining, tickPending, pomoCount,
                   carryOn, stats, alive, signalled, stdin, typed, now, store,
                   hist, asked>>
    /\ UNCHANGED <<res, fs>>

Next ==
    \/ \E c \in Configs : StartRun(c)
    \/ TickerFire
    \/ SelectTick
    \/ SelectSkip
    \/ SleepDone
    \/ \E line \in Lines : UserType(line)
    \/ \E l \in alive : ListenerRead(l)
    \/ PromptRead
    \/ \E storageOK \in BOOLEAN, loadOK \in BOOLEAN :
           (storageOK \/ loadOK) /\ ReportCmd(storageOK, loadOK)

Spec == Init /\ [][Next]_vars

TypeOK ==
    /\ pc \in {"idle", "select", "sleep", "prompt", "done"}
    /\ cmd \in {"none", "timer", "report"}
    /\ kind \in {"work", "short", "long"}
    /\ interval \in Nat
    /\ remaining \in Nat
    /\ pomoCount \in Nat
    /\ alive \subseteq 1..interval
    /\ signalled \subseteq 1..interval
    /\ Len(stdin) <= MaxPending
    /\ exitCode \in {-1, 0, 1}

\* ------------------------------------------------------------ properties
TimerEnded == pc = "done" /\ cmd = "timer"

\* an interval ended in this step and was logged with the given outcome
IntervalEnded == Len(hist') = Len(hist) + 1
LastEnded == hist'[Len(hist')]
InCountdown == pc \in {"select", "sleep"}

\* a line was taken from standard input in this step
LineRead == stdin # <<>> /\ stdin' = Tail(stdin) /\ typed' = typed

\* the continue prompt (not a listener) took the line: it either left the
\* prompt or printed its question again
PromptTookLine ==
    /\ pc = "prompt"
    /\ LineRead
    /\ (pc' # "prompt" \/ asked' = asked + 1)

RECURSIVE CompletedSinceLong(_)
CompletedSinceLong(h) ==
    IF h = <<>> THEN 0
    ELSE LET e == h[Len(h)] IN
         IF e.kind = "long" THEN 0
         ELSE (IF e.kind = "work" /\ e.completed THEN 1 ELSE 0)
              + CompletedSinceLong(SubSeq(h, 1, Len(h) - 1))

\* C1: when a timer run has terminated, a run with at least one completed
\* pomodoro has handed exactly one record to the store, built from the run's
\* counters and start time, a run with none has handed no record, and every
\* stored record has completed_pomos > 0.
C1_RecordOnTermination ==
    /\ TimerEnded =>
         IF stats.CompletedPomos > 0
         THEN /\ Len(saveCalls) = 1
              /\ saveCalls[1].Date = stats.StartTime
              /\ saveCalls[1].CompletedPomos = stats.CompletedPomos
              /\ saveCalls[1].SkippedSessions = stats.SkippedSessions
              /\ saveCalls[1].WorkTime = stats.TotalWorkTime
              /\ saveCalls[1].BreakTime = stats.TotalBreakTime
         ELSE saveCalls = <<>>
    /\ \A i \in 1..Len(store) : store[i].CompletedPomos > 0

\* C2: pomoCount is the number of work intervals completed since the last
\* long break; the break that follows a work interval is long exactly when
\* pomoCount equals PomosUntilLongBreak; after a long break pomoCount is 0.
C2_CycleCounter ==
    cmd = "timer" =>
        /\ pomoCount = CompletedSinceLong(hist)
        /\ (InCountdown /\ kind # "work") =>
               (kind = "long" <=> pomoCount = config.PomosUntilLongBreak)
        /\ (pc = "prompt" /\ kind = "long") => pomoCount = 0

C2_Witness ==
    /\ pc = "prompt"
    /\ kind = "long"
    /\ config.PomosUntilLongBreak = 2
    /\ \E i \in 1..Len(hist) : hist[i].kind = "short"

\* C3: a completed work interval adds one to CompletedPomos and to pomoCount
\* and leaves SkippedSessions alone; a skipped work interval adds one to
\* SkippedSessions only and leaves CompletedPomos, pomoCount and
\* TotalWorkTime alone.
C3_WorkIntervalCounters ==
    [][(IntervalEnded /\ LastEnded.kind = "work") =>
          IF LastEnded.completed
          THEN /\ stats'.CompletedPomos = stats.CompletedPomos + 1
               /\ pomoCount' = pomoCount + 1
               /\ stats'.SkippedSessions = stats.SkippedSessions
          ELSE /\ stats'.SkippedSessions = stats.SkippedSessions + 1
               /\ stats'.CompletedPomos = stats.CompletedPomos
               /\ pomoCount' = pomoCount
               /\ stats'.TotalWorkTime = stats.TotalWorkTime]_vars

C3_Witness ==
    /\ cmd = "timer"
    /\ \E i \in 1..Len(hist) : hist[i].kind = "work" /\ hist[i].completed
    /\ \E j \in 1..Len(hist) : hist[j].kind = "work" /\ ~hist[j].completed

\* C4: an interval that completes adds exactly its configured duration to
\* its own accumulator and changes neither the other accumulator nor
\* SkippedSessions; an interval that is skipped changes neither accumulator
\* and adds exactly one to SkippedSessions, however many ticks had elapsed.
C4_IntervalAccounting ==
    [][IntervalEnded =>
          LET k == LastEnded.kind
              dWork == stats'.TotalWorkTime - stats.TotalWorkTime
              dBreak == stats'.TotalBreakTime - stats.TotalBreakTime
              dSkip == stats'.SkippedSessions - stats.SkippedSessions
          IN IF LastEnded.completed
             THEN /\ dSkip = 0
                  /\ k = "work" => dWork = config.WorkDuration /\ dBreak = 0
                  /\ k = "short" =>
                        dBreak = config.ShortBreakDuration /\ dWork = 0
                  /\ k = "long" =>
                        dBreak = config.LongBreakDuration /\ dWork = 0
             ELSE dWork = 0 /\ dBreak = 0 /\ dSkip = 1]_vars

\* a long break skipped after one of its minutes had elapsed, following a
\* work interval that ran to completion
C4_Witness ==
    /\ pc = "prompt"
    /\ config.LongBreakDuration >= 2
    /\ config.ShowCountdown
    /\ Len(hist) = 2
    /\ hist[1].kind = "work" /\ hist[1].completed
    /\ hist[2].kind = "long" /\ ~hist[2].completed
    /\ now = stats.StartTime + config.WorkDuration + 1
    /\ stats.TotalBreakTime = 0
    /\ stats.TotalWorkTime = config.WorkDuration

\* C5: a skip command read from the terminal while the countdown of the
\* current interval is still running reaches that countdown, and a countdown
\* that holds the skip signal before any further tick ends as skipped.
C5_SkipEndsCurrentInterval ==
    [][/\ (pc = "select" /\ remaining > 0 /\ LineRead
           /\ Head(stdin) \in {"s", " S "}) => interval \in signalled'
       /\ (pc = "select" /\ interval \in signalled /\ ~tickPending
           /\ IntervalEnded) => ~LastEnded.completed]_vars

\* C6: when the listener of an interval that has already ended delivers its
\* skip signal, the listener finishes, no counter changes, no interval ends,
\* no channel but the listener's own receives a signal (so the countdown now
\* running is not skipped by it), and the ended interval stays reported as
\* completed.
C6_LateSkipDropped ==
    [][\A l \in alive :
          (l <= Len(hist) /\ LineRead /\ Head(stdin) \in {"s", " S "}
           /\ l \notin alive')
          => /\ stats' = stats
             /\ pomoCount' = pomoCount
             /\ hist' = hist
             /\ pc' = pc
             /\ hist[l].completed
             /\ signalled' \ signalled \subseteq {l}]_vars

\* the channel of an ended interval holds a signal that was not yet there
\* when its countdown returned
C6_Witness ==
    \E l \in signalled :
        /\ l <= Len(hist)
        /\ hist[l].completed
        /\ ~hist[l].pending
        /\ l \notin alive
        /\ stats.SkippedSessions = 0

\* C7 as stated: every answer other than y/yes taken by the prompt ends the run.
C7_NonAffirmativeStops ==
    [][(PromptTookLine /\ Head(stdin) \notin {"y", "Yes"}) => pc' = "done"]_vars

\* C7 amended: every break, skipped or completed, is followed by the continue
\* question; an answer n/no or an unreadable response ends the run without a
\* further interval, y/yes starts the next work interval, and any other
\* answer makes the prompt ask again.
C7_PromptDecides ==
    [][/\ (IntervalEnded /\ LastEnded.kind # "work") =>
             pc' = "prompt" /\ asked' = asked + 1
       /\ PromptTookLine =>
             IF Head(stdin) \in {"n", "no", EOF}
             THEN pc' = "done" /\ interval' = interval /\ hist' = hist
             ELSE IF Head(stdin) \in {"y", "Yes"}
             THEN /\ pc' \in {"select", "sleep"}
                  /\ kind' = "work"
                  /\ interval' = interval + 1
             ELSE /\ pc' = "prompt"
                  /\ asked' = asked + 1
                  /\ interval' = interval]_vars

\* an unrecognised answer was asked again and a later y started a work interval
C7_Witness ==
    /\ asked = 2
    /\ Len(hist) = 2
    /\ interval = 3
    /\ kind = "work"
    /\ InCountdown

\* C8: every interval that starts has a countdown of the configured duration
\* and a listener for the skip command.
C8_EveryIntervalCancelable ==
    [][(pc' \in {"select", "sleep"} /\ interval' # interval)
          => /\ pc' = "select"
             /\ interval' \in alive'
             /\ remaining' = IF kind' = "work" THEN config'.WorkDuration
                             ELSE BreakDuration(kind', config')]_vars

\* C9: ended intervals alternate work, break, work, ... starting with work;
\* the running interval is the only one not yet ended; the prompt is reached
\* only after a break; a run ends only from the prompt on n/no or an
\* unreadable response, hence after at least one work interval and one break;
\* a skipped interval is followed by the next interval or the prompt.
C9_RunShape ==
    [][cmd' = "timer" =>
         /\ \A i \in 1..Len(hist') :
               (hist'[i].kind = "work") <=> (i % 2 = 1)
         /\ pc' \in {"select", "sleep"} =>
               /\ interval' = Len(hist') + 1
               /\ (kind' = "work") <=> (interval' % 2 = 1)
         /\ pc' = "prompt" => interval' = Len(hist') /\ Len(hist') % 2 = 0
                              /\ Len(hist') >= 2
         /\ (pc' = "done" /\ pc # "done") =>
               /\ pc = "prompt"
               /\ LineRead
               /\ Head(stdin) \in {"n", "no", EOF}
               /\ Len(hist') >= 2
               /\ ~carryOn'
         /\ (IntervalEnded /\ ~LastEnded.completed) =>
               IF LastEnded.kind = "work"
               THEN pc' \in {"select", "sleep"} /\ kind' # "work"
               ELSE pc' = "prompt"]_vars

C9_Witness ==
    /\ TimerEnded
    /\ Len(hist) = 4
    /\ ~hist[1].completed
    /\ hist[3].completed

\* C10: a command that could not open the store has reported the failure and
\* ended with a non-zero status.
C10_StorageErrorsReported ==
    (pc = "done" /\ storageErr) => ("errStorage" \in console /\ exitCode # 0)

\* ============================================================ analytics
\* The analytics functions are pure functions of the loaded records and of
\* the current instant. Each gets a specification of its own: Init draws the
\* inputs, the actions apply the function and leave its result in `res`.
\* Instants are minutes since midnight of day 0, a Monday, in the one time
\* zone of the machine; one minute stands for the store's resolution
\* (RFC3339 keeps seconds).
MinutesPerHour == 60
HoursPerDay == 24
DaysPerWeek == 7
MinutesPerDay == HoursPerDay * MinutesPerHour

\* t.Weekday() of day 0 (time.Monday)
EpochWeekday == 1

DayOf(t) == t \div MinutesPerDay
\* t.Hour()
HourOf(t) == (t % MinutesPerDay) \div MinutesPerHour
\* t.Weekday(): time.Sunday = 0 .. time.Saturday = 6
Weekday(t) == (DayOf(t) + EpochWeekday) % DaysPerWeek
\* time.Date(y, m, d, hour, 0, 0, 0, loc)
At(day, hour) == day * MinutesPerDay + hour * MinutesPerHour

\* every variable of a timer run, at rest
runVars == <<pc, cmd, config, kind, interval, remaining, tickPending,
             pomoCount, carryOn, stats, alive, signalled, stdin, typed,
             saveCalls, console, exitCode, hist, asked, storageErr>>

\* the analytics functions leave the timer and the goal document alone
timerVars == <<runVars, fs>>

NoTimerRun ==
    /\ pc = "idle"
    /\ cmd = "none"
    /\ config = NoConfig
    /\ kind = "work"
    /\ interval = 0
    /\ remaining = 0
    /\ tickPending = FALSE
    /\ pomoCount = 0
    /\ carryOn = TRUE
    /\ stats = NewSessionStats(0)
    /\ alive = {}
    /\ signalled = {}
    /\ stdin = <<>>
    /\ typed = 0
    /\ saveCalls = <<>>
    /\ console = {}
    /\ exitCode = -1
    /\ hist = <<>>
    /\ asked = 0
    /\ storageErr = FALSE
    /\ fs = NoPomoDir

\* ------------------------------------------------------------- float64
\* A float64 quotient of two ints, kept exact as a fraction in lowest terms
\* with a positive denominator: equal quotients are equal values, as the
\* correctly rounded division of the same two numbers is.
RECURSIVE GCD(_, _)
GCD(a, b) == IF b = 0 THEN a ELSE GCD(b, a % b)

Abs(n) == IF n < 0 THEN 0 - n ELSE n

Ratio(n, d) ==
    LET g == GCD(Abs(n), d)
    IN  [num |-> n \div g, den |-> d \div g]

Float(n) == Ratio(n, 1)
\* a > b, a >= b on float64
Greater(a, b) == a.num * b.den > b.num * a.den
AtLeast(a, b) == a.num * b.den >= b.num * a.den

\* ------------------------------------------------------------- records
\* pomo.DefaultConfig: minutes of a work interval and of a short break
DefaultWorkMinutes == 25
DefaultShortMinutes == 5

\* a stored session of `pomos` completed work intervals and `skipped`
\* skipped intervals, started at `t`, under the default Config
SessionRecord(t, pomos, skipped) ==
    LET breaks == IF pomos > skipped THEN pomos - skipped ELSE 0
    IN  [Date |-> t,
         CompletedPomos |-> pomos,
         SkippedSessions |-> skipped,
         WorkTime |-> pomos * DefaultWorkMinutes,
         BreakTime |-> breaks * DefaultShortMinutes,
         Duration |-> pomos * DefaultWorkMinutes
                      + breaks * DefaultShortMinutes + skipped]

RECURSIVE SumOf(_, _)
SumOf(records, field) ==
    IF records = <<>> THEN 0
    ELSE records[1][field] + SumOf(Tail(records), field)

\* ------------------------------------------------------- GenerateReport
EmptyReport ==
    [TotalSessions |-> 0, TotalPomos |-> 0, TotalSkipped |-> 0,
     TotalWorkTime |-> 0, TotalBreakTime |-> 0, TotalDuration |-> 0,
     AveragePomos |-> Float(0), Records |-> <<>>]

\* `stats.TotalDuration = record.Duration` in the loop: the last record's
GenerateReport_LastDuration(records) ==
    IF Len(records) = 0 THEN EmptyReport
    ELSE [TotalSessions |-> Len(records),
          TotalPomos |-> SumOf(records, "CompletedPomos"),
          TotalSkipped |-> SumOf(records, "SkippedSessions"),
          TotalWorkTime |-> SumOf(records, "WorkTime"),
          TotalBreakTime |-> SumOf(records, "BreakTime"),
          TotalDuration |-> records[Len(records)].Duration,
          AveragePomos |-> Ratio(SumOf(records, "CompletedPomos"), Len(records)),
          Records |-> records]

GenerateReport(records) ==
    IF Len(records) = 0 THEN EmptyReport
    ELSE [TotalSessions |-> Len(records),
          TotalPomos |-> SumOf(records, "CompletedPomos"),
          TotalSkipped |-> SumOf(records, "SkippedSessions"),
          TotalWorkTime |-> SumOf(records, "WorkTime"),
          TotalBreakTime |-> SumOf(records, "BreakTime"),
          TotalDuration |-> SumOf(records, "Duration"),
          AveragePomos |-> Ratio(SumOf(records, "CompletedPomos"), Len(records)),
          Records |-> records]

\* ---------------------------------------------------------- the store
MaxRecords == 2
MaxRecPomos == 2

\* LoadRecords, GetRecordsSince, GetRecordsInRange: ORDER BY date DESC.
\* Rows of equal date stay in insertion order.
RECURSIVE InsertByDate(_, _)
InsertByDate(sorted, r) ==
    IF sorted = <<>> THEN <<r>>
    ELSE IF Head(sorted).Date >= r.Date
         THEN <<Head(sorted)>> \o InsertByDate(Tail(sorted), r)
         ELSE <<r>> \o sorted

RECURSIVE OrderByDateDesc(_)
OrderByDateDesc(rows) ==
    IF rows = <<>> THEN <<>>
    ELSE InsertByDate(OrderByDateDesc(SubSeq(rows, 1, Len(rows) - 1)),
                      rows[Len(rows)])

LoadRecords(rows) == OrderByDateDesc(rows)

\* the records of `records` at the positions in S, in order
RECURSIVE Restrict(_, _, _)
Restrict(records, S, i) ==
    IF i > Len(records) THEN <<>>
    ELSE (IF i \in S THEN <<records[i]>> ELSE <<>>)
         \o Restrict(records, S, i + 1)

\* ------------------------------------------------ specification: reports
\* Sessions recorded at the edges of the four parts of the day, on four
\* days of the week.
ReportDates ==
    {At(0, 5), At(0, 6), At(1, 11), At(1, 12),
     At(2, 17), At(2, 18), At(6, 23), At(6, 0)}

\* every work interval after the first was skipped once
ReportRecords ==
    {SessionRecord(t, p, p - 1) : t \in ReportDates, p \in 1..MaxRecPomos}

InitReport ==
    /\ NoTimerRun
    /\ now = At(DaysPerWeek, 0)
    /\ store = <<>>
    /\ res = NoResult

\* storage.SaveRecord, by a session that ended earlier
SaveRecord(r) ==
    /\ Len(store) < MaxRecords
    /\ store' = Append(store, r)
    /\ res' = NoResult
    /\ UNCHANGED <<timerVars, now>>

\* GenerateReport over everything stored
ReportAll ==
    /\ res' = [op |-> "report",
               input |-> LoadRecords(store),
               value |-> GenerateReport(LoadRecords(store))]
    /\ UNCHANGED <<timerVars, now, store>>

\* ------------------------------------------------------- time of day
\* `hour > 6`: six o'clock itself falls to the night
getTimeOfDay_LateMorning(t) ==
    LET hour == HourOf(t)
    IN  CASE hour > 6 /\ hour < 12 -> "morning"
          [] hour >= 12 /\ hour < 18 -> "afternoon"
          [] hour >= 18 /\ hour < 24 -> "evening"
          [] OTHER -> "night"

getTimeOfDay(t) ==
    LET hour == HourOf(t)
    IN  CASE hour >= 6 /\ hour < 12 -> "morning"
          [] hour >= 12 /\ hour < 18 -> "afternoon"
          [] hour >= 18 /\ hour < 24 -> "evening"
          [] OTHER -> "night"

RECURSIVE RecordsOfSlot(_, _)
RecordsOfSlot(records, slot) ==
    IF records = <<>> THEN <<>>
    ELSE (IF getTimeOfDay(Head(records).Date) = slot
          THEN <<Head(records)>> ELSE <<>>)
         \o RecordsOfSlot(Tail(records), slot)

AnalyzeTimeOfDay(records) ==
    [Morning |-> GenerateReport(RecordsOfSlot(records, "morning")),
     Afternoon |-> GenerateReport(RecordsOfSlot(records, "afternoon")),
     Evening |-> GenerateReport(RecordsOfSlot(records, "evening")),
     Night |-> GenerateReport(RecordsOfSlot(records, "night"))]

\* ------------------------------------------------------- day of week
\* dayRecords[record.Date.Weekday()]
RECURSIVE RecordsOfDay(_, _)
RecordsOfDay(records, weekday) ==
    IF records = <<>> THEN <<>>
    ELSE (IF Weekday(Head(records).Date) = weekday
          THEN <<Head(records)>> ELSE <<>>)
         \o RecordsOfDay(Tail(records), weekday)

AnalyzeDayOfWeek(records) ==
    [Monday |-> GenerateReport(RecordsOfDay(records, 1)),
     Tuesday |-> GenerateReport(RecordsOfDay(records, 2)),
     Wednesday |-> GenerateReport(RecordsOfDay(records, 3)),
     Thursday |-> GenerateReport(RecordsOfDay(records, 4)),
     Friday |-> GenerateReport(RecordsOfDay(records, 5)),
     Saturday |-> GenerateReport(RecordsOfDay(records, 6)),
     Sunday |-> GenerateReport(RecordsOfDay(records, 0))]

\* ------------------------------------------------ best performing slot
NoData == [slot |-> "No data available", avg |-> Float(0)]

\* the `slots` map of GetBestPerformingTime
TimeSlots(todStats) ==
    [slot \in {"Morning (6am-12pm)", "Afternoon (12pm-6pm)",
               "Evening (6pm-12am)", "Night (12am-6am)"} |->
        CASE slot = "Morning (6am-12pm)" -> todStats.Morning
          [] slot = "Afternoon (12pm-6pm)" -> todStats.Afternoon
          [] slot = "Evening (6pm-12am)" -> todStats.Evening
          [] OTHER -> todStats.Night]

\* the `days` map of GetBestPerformingDay
DaySlots(dowStats) ==
    [slot \in {"Monday", "Tuesday", "Wednesday", "Thursday", "Friday",
               "Saturday", "Sunday"} |-> dowStats[slot]]

\* the loop forgets `bestAvg = stats.AveragePomos`
RECURSIVE BestTimeOf_StaleAverage(_, _, _, _)
BestTimeOf_StaleAverage(slots, order, bestSlot, bestAvg) ==
    IF order = <<>> THEN [slot |-> bestSlot, avg |-> bestAvg]
    ELSE LET st == slots[Head(order)]
         IN  IF st.TotalSessions > 0 /\ Greater(st.AveragePomos, bestAvg)
             THEN BestTimeOf_StaleAverage(slots, Tail(order), Head(order),
                                          bestAvg)
             ELSE BestTimeOf_StaleAverage(slots, Tail(order), bestSlot,
                                          bestAvg)

\* `for slot, stats := range slots`, the map visited in `order`
RECURSIVE BestTimeOf(_, _, _, _)
BestTimeOf(slots, order, bestSlot, bestAvg) ==
    IF order = <<>> THEN [slot |-> bestSlot, avg |-> bestAvg]
    ELSE LET st == slots[Head(order)]
         IN  IF st.TotalSessions > 0 /\ Greater(st.AveragePomos, bestAvg)
             THEN BestTimeOf(slots, Tail(order), Head(order), st.AveragePomos)
             ELSE BestTimeOf(slots, Tail(order), bestSlot, bestAvg)

GetBestPerformingTime(todStats, order) ==
    LET best == BestTimeOf(TimeSlots(todStats), order, "", Float(0))
    IN  IF best.slot = "" THEN NoData ELSE best

\* `for day, stats := range days`, the map visited in `order`
RECURSIVE BestDayOf(_, _, _, _)
BestDayOf(days, order, bestDay, bestAvg) ==
    IF order = <<>> THEN [slot |-> bestDay, avg |-> bestAvg]
    ELSE LET st == days[Head(order)]
         IN  IF st.TotalSessions > 0 /\ Greater(st.AveragePomos, bestAvg)
             THEN BestDayOf(days, Tail(order), Head(order), st.AveragePomos)
             ELSE BestDayOf(days, Tail(order), bestDay, bestAvg)

GetBestPerformingDay(dowStats, order) ==
    LET best == BestDayOf(DaySlots(dowStats), order, "", Float(0))
    IN  IF best.slot = "" THEN NoData ELSE best

\* The orders in which `range` can visit a map. Go leaves the order open.
\* An entry without sessions never changes bestSlot, so what is drawn is
\* the order of the entries that have sessions; the others follow.
RECURSIVE AnyOrder(_)
AnyOrder(S) ==
    IF S = {} THEN <<>>
    ELSE LET x == CHOOSE y \in S : TRUE
         IN  <<x>> \o AnyOrder(S \ {x})

Orderings(S) ==
    {f \in [1..Cardinality(S) -> S] : \A i, j \in DOMAIN f : f[i] = f[j] => i = j}

RangeOrders(m) ==
    LET busy == {k \in DOMAIN m : m[k].TotalSessions > 0}
    IN  {first \o AnyOrder(DOMAIN m \ busy) : first \in Orderings(busy)}

\* ------------------------------------------------------------- actions
TimeOfDay ==
    /\ res' = [op |-> "timeOfDay",
               input |-> LoadRecords(store),
               value |-> AnalyzeTimeOfDay(LoadRecords(store))]
    /\ UNCHANGED <<timerVars, now, store>>

DayOfWeek ==
    /\ res' = [op |-> "dayOfWeek",
               input |-> LoadRecords(store),
               value |-> AnalyzeDayOfWeek(LoadRecords(store))]
    /\ UNCHANGED <<timerVars, now, store>>

BestTime ==
    LET todStats == AnalyzeTimeOfDay(LoadRecords(store))
    IN  /\ \E order \in RangeOrders(TimeSlots(todStats)) :
              res' = [op |-> "bestTime",
                      input |-> TimeSlots(todStats),
                      value |-> GetBestPerformingTime(todStats, order)]
        /\ UNCHANGED <<timerVars, now, store>>

BestDay ==
    LET dowStats == AnalyzeDayOfWeek(LoadRecords(store))
    IN  /\ \E order \in RangeOrders(DaySlots(dowStats)) :
              res' = [op |-> "bestDay",
                      input |-> DaySlots(dowStats),
                      value |-> GetBestPerformingDay(dowStats, order)]
        /\ UNCHANGED <<timerVars, now, store>>

NextReport ==
    \/ \E r \in ReportRecords : SaveRecord(r)
    \/ ReportAll
    \/ TimeOfDay
    \/ DayOfWeek
    \/ BestTime
    \/ BestDay

SpecReport == InitReport /\ [][NextReport]_vars

\* C11: the report of a record set is, field by field, the sum of the
\* reports of any two parts it is split into; its average is recomputed as
\* TotalPomos / TotalSessions (0 without sessions); the report of one record
\* is that record's figures and the report of no records is all zero.
C11_ReportAdditive ==
    res.op = "report" =>
        LET all == res.input
            r == res.value
            Sums(a, b, field) == r[field] = a[field] + b[field]
        IN  /\ \A S \in SUBSET (1..Len(all)) :
                  LET a == GenerateReport(Restrict(all, S, 1))
                      b == GenerateReport(Restrict(all, (1..Len(all)) \ S, 1))
                  IN  /\ Sums(a, b, "TotalSessions")
                      /\ Sums(a, b, "TotalPomos")
                      /\ Sums(a, b, "TotalSkipped")
                      /\ Sums(a, b, "TotalWorkTime")
                      /\ Sums(a, b, "TotalBreakTime")
                      /\ Sums(a, b, "TotalDuration")
            /\ r.AveragePomos.num * r.TotalSessions = r.TotalPomos * r.AveragePomos.den
            /\ r.TotalSessions = 0 => r.AveragePomos = Float(0)
            /\ Len(all) = 0 => r = EmptyReport
            /\ Len(all) = 1 =>
                  /\ r.TotalSessions = 1
                  /\ r.TotalPomos = all[1].CompletedPomos
                  /\ r.TotalSkipped = all[1].SkippedSessions
                  /\ r.TotalWorkTime = all[1].WorkTime
                  /\ r.TotalBreakTime = all[1].BreakTime
                  /\ r.TotalDuration = all[1].Duration

C11_Witness ==
    /\ res.op = "report"
    /\ Len(res.input) = 2
    /\ res.input[1].CompletedPomos # res.input[2].CompletedPomos
    /\ res.input[1].SkippedSessions # res.input[2].SkippedSessions

\* C12: every record is counted in exactly one part of the day (hours 6 to
\* 11 morning, 12 to 17 afternoon, 18 to 23 evening, the rest night) and in
\* exactly one day of the week, so the sessions and pomodoros of the four
\* reports, and of the seven, add up to those of all the records.
C12_BucketsPartition ==
    LET all == res.input
        Sessions(S) == Cardinality({i \in 1..Len(all) : S[i]})
        Pomos(S) == SumOf(Restrict(all, {i \in 1..Len(all) : S[i]}, 1),
                          "CompletedPomos")
        Holds(report, S) ==
            report.TotalSessions = Sessions(S) /\ report.TotalPomos = Pomos(S)
        Hour == [i \in 1..Len(all) |-> HourOf(all[i].Date)]
        Day == [i \in 1..Len(all) |-> Weekday(all[i].Date)]
        v == res.value
    IN  /\ res.op = "timeOfDay" =>
            /\ Holds(v.Morning, [i \in 1..Len(all) |-> Hour[i] \in 6..11])
            /\ Holds(v.Afternoon, [i \in 1..Len(all) |-> Hour[i] \in 12..17])
            /\ Holds(v.Evening, [i \in 1..Len(all) |-> Hour[i] \in 18..23])
            /\ Holds(v.Night, [i \in 1..Len(all) |-> Hour[i] \in 0..5])
            /\ v.Morning.TotalSessions + v.Afternoon.TotalSessions
               + v.Evening.TotalSessions + v.Night.TotalSessions = Len(all)
            /\ v.Morning.TotalPomos + v.Afternoon.TotalPomos
               + v.Evening.TotalPomos + v.Night.TotalPomos
               = SumOf(all, "CompletedPomos")
        /\ res.op = "dayOfWeek" =>
            /\ Holds(v.Sunday, [i \in 1..Len(all) |-> Day[i] = 0])
            /\ Holds(v.Monday, [i \in 1..Len(all) |-> Day[i] = 1])
            /\ Holds(v.Tuesday, [i \in 1..Len(all) |-> Day[i] = 2])
            /\ Holds(v.Wednesday, [i \in 1..Len(all) |-> Day[i] = 3])
            /\ Holds(v.Thursday, [i \in 1..Len(all) |-> Day[i] = 4])
            /\ Holds(v.Friday, [i \in 1..Len(all) |-> Day[i] = 5])
            /\ Holds(v.Saturday, [i \in 1..Len(all) |-> Day[i] = 6])
            /\ v.Sunday.TotalSessions + v.Monday.TotalSessions
               + v.Tuesday.TotalSessions + v.Wednesday.TotalSessions
               + v.Thursday.TotalSessions + v.Friday.TotalSessions
               + v.Saturday.TotalSessions = Len(all)
            /\ v.Sunday.TotalPomos + v.Monday.TotalPomos
               + v.Tuesday.TotalPomos + v.Wednesday.TotalPomos
               + v.Thursday.TotalPomos + v.Friday.TotalPomos
               + v.Saturday.TotalPomos = SumOf(all, "CompletedPomos")

\* a session begun at six o'clock sharp and one begun in the hour before
C12_Witness ==
    /\ res.op = "timeOfDay"
    /\ Len(res.input) = 2
    /\ \E i, j \in 1..2 : /\ HourOf(res.input[i].Date) = 6
                          /\ HourOf(res.input[j].Date) = 5
    /\ res.value.Morning.TotalSessions = 1
    /\ res.value.Night.TotalSessions = 1

\* C13: the best time slot, and the best day, is a bucket with sessions
\* whose average is not exceeded by any other bucket with sessions; it is
\* the one with the strictly highest average where there is one; "no data"
\* is reported exactly when no bucket has a session.
C13_BestBucket ==
    res.op \in {"bestTime", "bestDay"} =>
        LET m == res.input
            busy == {k \in DOMAIN m : m[k].TotalSessions > 0}
            best == res.value
        IN  /\ (best = NoData) <=> (busy = {})
            /\ \A k \in busy :
                  (\A j \in busy \ {k} :
                      Greater(m[k].AveragePomos, m[j].AveragePomos))
                  => best.slot = k
            /\ busy # {} =>
                  /\ best.slot \in busy
                  /\ best.avg = m[best.slot].AveragePomos
                  /\ \A j \in busy : AtLeast(best.avg, m[j].AveragePomos)

\* two parts of the day with sessions, the better one reported
C13_Witness ==
    /\ res.op = "bestTime"
    /\ res.input["Morning (6am-12pm)"].TotalSessions = 1
    /\ res.input["Night (12am-6am)"].TotalSessions = 1
    /\ Greater(res.input["Night (12am-6am)"].AveragePomos,
               res.input["Morning (6am-12pm)"].AveragePomos)
    /\ res.value.slot = "Night (12am-6am)"

\* C14: applying the same analytics function again to the same stored
\* records gives the same result.
C14_Deterministic ==
    [][(res.op # "none" /\ res'.op = res.op /\ store' = store)
       => res' = res]_vars

\* ------------------------------------------------- buildComparisonStats
MaxComparePomos == 11

CalculateFocusEfficiency(report) ==
    LET totalActivities == report.TotalPomos + report.TotalSkipped
    IN  IF totalActivities = 0 THEN Float(0)
        ELSE Ratio(report.TotalPomos * 100, totalActivities)

\* `percentChange >= 10`
buildComparisonStats_AtLeastTen(current, previous) ==
    LET pomoChange == current.TotalPomos - previous.TotalPomos
        percentChange ==
            IF previous.TotalPomos > 0
            THEN Ratio(pomoChange * 100, previous.TotalPomos)
            ELSE IF current.TotalPomos > 0 THEN Float(100) ELSE Float(0)
        trend ==
            IF AtLeast(percentChange, Float(10)) THEN "improving"
            ELSE IF Greater(Float(-10), percentChange) THEN "declining"
            ELSE "stable"
    IN  [Current |-> current, Previous |-> previous,
         PomoChange |-> pomoChange, PercentChange |-> percentChange,
         Trend |-> trend,
         EfficiencyCurr |-> CalculateFocusEfficiency(current),
         EfficiencyPrev |-> CalculateFocusEfficiency(previous)]

\* no `else if current.TotalPomos > 0` branch
buildComparisonStats_NoFromZero(current, previous) ==
    LET pomoChange == current.TotalPomos - previous.TotalPomos
        percentChange ==
            IF previous.TotalPomos > 0
            THEN Ratio(pomoChange * 100, previous.TotalPomos)
            ELSE Float(0)
        trend ==
            IF Greater(percentChange, Float(10)) THEN "improving"
            ELSE IF Greater(Float(-10), percentChange) THEN "declining"
            ELSE "stable"
    IN  [Current |-> current, Previous |-> previous,
         PomoChange |-> pomoChange, PercentChange |-> percentChange,
         Trend |-> trend,
         EfficiencyCurr |-> CalculateFocusEfficiency(current),
         EfficiencyPrev |-> CalculateFocusEfficiency(previous)]

\* The quotient is kept exact. The float64 product
\* (float64(pomoChange) / float64(previous.TotalPomos)) * 100 lies on the
\* same side of 10 and of -10 as the exact value, and is 10 or -10 when the
\* exact value is.
buildComparisonStats(current, previous) ==
    LET pomoChange == current.TotalPomos - previous.TotalPomos
        percentChange ==
            IF previous.TotalPomos > 0
            THEN Ratio(pomoChange * 100, previous.TotalPomos)
            ELSE IF current.TotalPomos > 0 THEN Float(100) ELSE Float(0)
        trend ==
            IF Greater(percentChange, Float(10)) THEN "improving"
            ELSE IF Greater(Float(-10), percentChange) THEN "declining"
            ELSE "stable"
    IN  [Current |-> current, Previous |-> previous,
         PomoChange |-> pomoChange, PercentChange |-> percentChange,
         Trend |-> trend,
         EfficiencyCurr |-> CalculateFocusEfficiency(current),
         EfficiencyPrev |-> CalculateFocusEfficiency(previous)]

\* ---------------------------------------------- specification: comparison
\* the reports of two periods: of no session, or of one session of up to
\* MaxComparePomos pomodoros
CompareReports ==
    {EmptyReport}
    \cup {GenerateReport(<<SessionRecord(0, p, 0)>>) : p \in 1..MaxComparePomos}

InitCompare ==
    /\ NoTimerRun
    /\ now = 0
    /\ store = <<>>
    /\ res = NoResult

BuildComparison(current, previous) ==
    /\ res' = [op |-> "comparison",
               value |-> buildComparisonStats(current, previous)]
    /\ UNCHANGED <<timerVars, now, store>>

NextCompare ==
    \E current, previous \in CompareReports :
        BuildComparison(current, previous)

SpecCompare == InitCompare /\ [][NextCompare]_vars

\* C15: the pomodoro change is current minus previous; the percent change
\* is that change over the previous total times 100 when the previous total
\* is positive, 100 when it is zero and the current one is not, 0 when both
\* are zero.
C15_PercentChange ==
    res.op = "comparison" =>
        LET v == res.value
            cur == v.Current.TotalPomos
            prev == v.Previous.TotalPomos
        IN  /\ v.PomoChange = cur - prev
            /\ prev > 0 =>
                  v.PercentChange.num * prev
                      = v.PomoChange * 100 * v.PercentChange.den
            /\ (prev = 0 /\ cur # 0) => v.PercentChange = Float(100)
            /\ (prev = 0 /\ cur = 0) => v.PercentChange = Float(0)

\* from nothing to five pomodoros
C15_Witness ==
    /\ res.op = "comparison"
    /\ res.value.Previous.TotalPomos = 0
    /\ res.value.Current.TotalPomos = 5
    /\ res.value.PercentChange = Float(100)

\* C16: the trend is improving exactly when the percent change is above 10,
\* declining exactly when it is below -10, and stable otherwise.
C16_TrendClasses ==
    res.op = "comparison" =>
        LET v == res.value
            up == v.PercentChange.num > 10 * v.PercentChange.den
            down == v.PercentChange.num < (0 - 10) * v.PercentChange.den
        IN  /\ v.Trend \in {"improving", "declining", "stable"}
            /\ (v.Trend = "improving") <=> up
            /\ (v.Trend = "declining") <=> down
            /\ (v.Trend = "stable") <=> (~up /\ ~down)

\* from ten pomodoros to eleven: exactly +10 percent
C16_Witness ==
    /\ res.op = "comparison"
    /\ res.value.Previous.TotalPomos = 10
    /\ res.value.Current.TotalPomos = 11
    /\ res.value.PercentChange = Float(10)
    /\ res.value.Trend = "stable"

\* ------------------------------------------------------------ calendar
\* Days are counted from 1 January of year 0, a Monday; years have 365
\* days. time.Date normalises a month outside 1..12 and a day outside the
\* month, as the time package does.
MonthsPerYear == 12
DaysPerYear == 365
MonthDays == <<31, 28, 31, 30, 31, 30, 31, 31, 30, 31, 30, 31>>

RECURSIVE DaysBefore(_)
DaysBefore(month) ==
    IF month = 1 THEN 0 ELSE DaysBefore(month - 1) + MonthDays[month - 1]

\* the day time.Date(year, month, day, ...) falls on
Date(year, month, day) ==
    LET m == ((month - 1) % MonthsPerYear) + 1
        y == year + ((month - 1) \div MonthsPerYear)
    IN  y * DaysPerYear + DaysBefore(m) + day - 1

\* t.Year(), t.Month(), t.Day() of a day
YearOf(day) == day \div DaysPerYear
MonthOf(day) ==
    CHOOSE m \in 1..MonthsPerYear :
        /\ DaysBefore(m) <= day % DaysPerYear
        /\ day % DaysPerYear < DaysBefore(m) + MonthDays[m]
DayOfMonth(day) == (day % DaysPerYear) - DaysBefore(MonthOf(day)) + 1

\* t.AddDate(years, months, days)
AddDate(t, years, months, days) ==
    LET d == DayOf(t)
    IN  Date(YearOf(d) + years, MonthOf(d) + months, DayOfMonth(d) + days)
            * MinutesPerDay + (t % MinutesPerDay)

\* ------------------------------------------------------- period starts
GetTodayStart(t) ==
    LET d == DayOf(t)
    IN  At(Date(YearOf(d), MonthOf(d), DayOfMonth(d)), 0)

GetWeekStart(t) ==
    LET weekday == IF Weekday(t) = 0 THEN 7 ELSE Weekday(t)
        daysBack == weekday - 1
        monday == DayOf(AddDate(t, 0, 0, 0 - daysBack))
    IN  At(Date(YearOf(monday), MonthOf(monday), DayOfMonth(monday)), 0)

GetMonthStart(t) ==
    LET d == DayOf(t)
    IN  At(Date(YearOf(d), MonthOf(d), 1), 0)

GetPreviousWeekStart(t) == AddDate(GetWeekStart(t), 0, 0, 0 - DaysPerWeek)

GetPreviousMonthStart(t) ==
    LET previousMonth == DayOf(AddDate(t, 0, 0 - 1, 0))
    IN  At(Date(YearOf(previousMonth), MonthOf(previousMonth), 1), 0)

\* ------------------------------------------------------- range queries
\* WHERE date >= ? : the dates are compared as RFC3339 text, which for
\* instants written in one zone is their order in time
GetRecordsSince(rows, since) ==
    OrderByDateDesc(SelectSeq(rows, LAMBDA r : r.Date >= since))

\* WHERE date >= ? AND date <= ?
GetRecordsInRange(rows, start, end) ==
    OrderByDateDesc(SelectSeq(rows, LAMBDA r : r.Date >= start /\ r.Date <= end))

\* currentWeekStart.Add(-1*time.Second): one unit of the store's resolution
CompareWeeks(rows, t) ==
    LET currentWeekStart == GetWeekStart(t)
        previousWeekStart == GetPreviousWeekStart(t)
        currentRecords == GetRecordsSince(rows, currentWeekStart)
        previousRecords ==
            GetRecordsInRange(rows, previousWeekStart, currentWeekStart - 1)
    IN  buildComparisonStats(GenerateReport(currentRecords),
                             GenerateReport(previousRecords))

CompareMonths(rows, t) ==
    LET currentMonthStart == GetMonthStart(t)
        previousMonthStart == GetPreviousMonthStart(t)
        currentRecords == GetRecordsSince(rows, currentMonthStart)
        previousRecords ==
            GetRecordsInRange(rows, previousMonthStart, currentMonthStart - 1)
    IN  buildComparisonStats(GenerateReport(currentRecords),
                             GenerateReport(previousRecords))

\* ------------------------------------------------ specification: periods
MaxPeriodRecords == 2

\* the command runs at noon of a day from 25 March to 2 April
PeriodClocks == {At(d, 12) : d \in Date(0, 3, 25)..Date(0, 4, 2)}

\* sessions recorded at the first and at the last minute of a month or week
PeriodStarts ==
    {At(Date(0, 2, 1), 0), At(Date(0, 3, 1), 0), At(Date(0, 4, 1), 0),
     At(Date(0, 3, 12), 0), At(Date(0, 3, 19), 0), At(Date(0, 3, 26), 0),
     At(Date(0, 4, 2), 0)}

PeriodDates == PeriodStarts \cup {s - 1 : s \in PeriodStarts}

InitPeriods ==
    /\ NoTimerRun
    /\ now \in PeriodClocks
    /\ store = <<>>
    /\ res = NoResult

\* storage.SaveRecord, by a session of one pomodoro begun at `t`
SaveEarlier(t) ==
    /\ Len(store) < MaxPeriodRecords
    /\ t <= now
    /\ store' = Append(store, SessionRecord(t, 1, 0))
    /\ res' = NoResult
    /\ UNCHANGED <<timerVars, now>>

Weeks ==
    /\ res' = [op |-> "weeks", value |-> CompareWeeks(store, now)]
    /\ UNCHANGED <<timerVars, now, store>>

Months ==
    /\ res' = [op |-> "months", value |-> CompareMonths(store, now)]
    /\ UNCHANGED <<timerVars, now, store>>

NextPeriods ==
    \/ \E t \in PeriodDates : SaveEarlier(t)
    \/ Weeks
    \/ Months

SpecPeriods == InitPeriods /\ [][NextPeriods]_vars

\* the midnights on or before t that begin a week, and a month
WeekStartsUpTo(t) ==
    {At(d, 0) : d \in {e \in 0..DayOf(t) : Weekday(At(e, 0)) = 1}}
MonthStartsUpTo(t) ==
    {At(d, 0) : d \in {e \in 0..DayOf(t) : DayOfMonth(e) = 1}}
Latest(S) == CHOOSE s \in S : \A u \in S : u <= s

\* C17: the previous set is the stored records from the start of the week
\* (month) before the current one up to, not including, the start of the
\* current week (month); the current set is the stored records from that
\* start on.
C17_PreviousPeriod ==
    res.op \in {"weeks", "months"} =>
        LET starts == IF res.op = "weeks" THEN WeekStartsUpTo(now)
                      ELSE MonthStartsUpTo(now)
            currentStart == Latest(starts)
            previousStart == Latest(starts \ {currentStart})
            Stored(P(_)) == {i \in 1..Len(store) : P(store[i].Date)}
            InCurrent(t) == t >= currentStart
            InPrevious(t) == t >= previousStart /\ t < currentStart
        IN  /\ res.value.Current.Records
                 = OrderByDateDesc(Restrict(store, Stored(InCurrent), 1))
            /\ res.value.Previous.Records
                 = OrderByDateDesc(Restrict(store, Stored(InPrevious), 1))

\* ------------------------------------------------ CalculateGoalProgress
MaxGoal == 4

\* percentElapsed: elapsed.Hours() over the hours of the period, times 100
PercentElapsed(elapsed, isWeekly) ==
    IF isWeekly
    THEN Ratio(elapsed * 100, MinutesPerHour * DaysPerWeek * HoursPerDay)
    ELSE Ratio(elapsed * 100, MinutesPerHour * HoursPerDay)

\* `completed = record.CompletedPomos` in the loop: the last record's
CalculateGoalProgress_LastRecord(goal, records, startDate, isWeekly, t) ==
    LET completed == IF records = <<>> THEN 0
                     ELSE records[Len(records)].CompletedPomos
        percentage == IF goal > 0 THEN Ratio(completed * 100, goal)
                      ELSE Float(0)
        remainingPomos == IF goal - completed < 0 THEN 0 ELSE goal - completed
        percentElapsed == PercentElapsed(t - startDate, isWeekly)
        onTrack == AtLeast(percentage, percentElapsed) \/ completed >= goal
    IN  [Goal |-> goal, Completed |-> completed, Percentage |-> percentage,
         Remaining |-> remainingPomos, OnTrack |-> onTrack,
         PercentOfDay |-> percentElapsed, PercentOfWeek |-> percentElapsed]

\* `percentage > percentElapsed`
CalculateGoalProgress_StrictlyAhead(goal, records, startDate, isWeekly, t) ==
    LET completed == SumOf(records, "CompletedPomos")
        percentage == IF goal > 0 THEN Ratio(completed * 100, goal)
                      ELSE Float(0)
        remainingPomos == IF goal - completed < 0 THEN 0 ELSE goal - completed
        percentElapsed == PercentElapsed(t - startDate, isWeekly)
        onTrack == Greater(percentage, percentElapsed) \/ completed >= goal
    IN  [Goal |-> goal, Completed |-> completed, Percentage |-> percentage,
         Remaining |-> remainingPomos, OnTrack |-> onTrack,
         PercentOfDay |-> percentElapsed, PercentOfWeek |-> percentElapsed]

\* `t` is the time.Now() read inside the function. The two percentages are
\* kept exact; at whole hours the float64 values compare the same way.
CalculateGoalProgress(goal, records, startDate, isWeekly, t) ==
    LET completed == SumOf(records, "CompletedPomos")
        percentage == IF goal > 0 THEN Ratio(completed * 100, goal)
                      ELSE Float(0)
        remainingPomos == IF goal - completed < 0 THEN 0 ELSE goal - completed
        percentElapsed == PercentElapsed(t - startDate, isWeekly)
        onTrack == AtLeast(percentage, percentElapsed) \/ completed >= goal
    IN  [Goal |-> goal, Completed |-> completed, Percentage |-> percentage,
         Remaining |-> remainingPomos, OnTrack |-> onTrack,
         PercentOfDay |-> percentElapsed, PercentOfWeek |-> percentElapsed]

\* -------------------------------------------------- specification: goals
\* the command runs on Wednesday 10 January, at midnight, 8 or 12 h
GoalClocks == {At(Date(0, 1, 10), h) : h \in {0, 8, 12}}

\* sessions begun with the day, a minute before it, and a minute before
\* the week
GoalDates ==
    {At(Date(0, 1, 10), 0), At(Date(0, 1, 10), 0) - 1,
     At(Date(0, 1, 8), 0) - 1}

InitGoal ==
    /\ NoTimerRun
    /\ now \in GoalClocks
    /\ store = <<>>
    /\ res = NoResult

\* a row of the sessions table, whatever wrote it
SaveRow(t, pomos) ==
    /\ Len(store) < MaxRecords
    /\ t <= now
    /\ store' = Append(store, SessionRecord(t, pomos, 0))
    /\ res' = NoResult
    /\ UNCHANGED <<timerVars, now>>

\* CheckDailyGoal
Daily(goal) ==
    LET todayStart == GetTodayStart(now)
        records == GetRecordsSince(store, todayStart)
    IN  /\ res' = [op |-> "goal", goal |-> goal, records |-> records,
                   startDate |-> todayStart, isWeekly |-> FALSE,
                   value |-> CalculateGoalProgress(goal, records, todayStart,
                                                   FALSE, now)]
        /\ UNCHANGED <<timerVars, now, store>>

\* CheckWeeklyGoal
Weekly(goal) ==
    LET weekStart == GetWeekStart(now)
        records == GetRecordsSince(store, weekStart)
    IN  /\ res' = [op |-> "goal", goal |-> goal, records |-> records,
                   startDate |-> weekStart, isWeekly |-> TRUE,
                   value |-> CalculateGoalProgress(goal, records, weekStart,
                                                   TRUE, now)]
        /\ UNCHANGED <<timerVars, now, store>>

NextGoal ==
    \/ \E t \in GoalDates, pomos \in 0..MaxRecPomos : SaveRow(t, pomos)
    \/ \E goal \in 0..MaxGoal : Daily(goal)
    \/ \E goal \in 0..MaxGoal : Weekly(goal)

SpecGoal == InitGoal /\ [][NextGoal]_vars

\* C18: Completed is the sum of the records' completed pomodoros;
\* Percentage is Completed over the goal times 100, 0 for goal 0; Remaining
\* is goal minus Completed, never below 0; OnTrack holds exactly when
\* Percentage is at least the percentage of the day (24 h) or week (7 x 24 h)
\* elapsed since the period start, or Completed has reached the goal.
C18_GoalProgress ==
    res.op = "goal" =>
        LET v == res.value
            done == SumOf(res.records, "CompletedPomos")
            period == IF res.isWeekly THEN 7 * 24 * 60 ELSE 24 * 60
            elapsed == now - res.startDate
        IN  /\ v.Completed = done
            /\ res.goal > 0 =>
                  v.Percentage.num * res.goal = done * 100 * v.Percentage.den
            /\ res.goal = 0 => v.Percentage = Float(0)
            /\ v.Remaining = IF res.goal > done THEN res.goal - done ELSE 0
            /\ v.OnTrack <=>
                  \/ v.Percentage.num * period
                        >= elapsed * 100 * v.Percentage.den
                  \/ done >= res.goal

\* noon, one of two pomodoros done: 50 percent against 50 percent
C18_Witness ==
    /\ res.op = "goal"
    /\ ~res.isWeekly
    /\ now - res.startDate = 12 * 60
    /\ res.goal = 2
    /\ res.value.Completed = 1
    /\ res.value.Percentage = res.value.PercentOfDay
    /\ res.value.OnTrack

\* C19: for the same goal, the progress over all the records has a
\* percentage no lower and a remaining count no higher than the progress
\* over any part of them.
C19_ProgressMonotonic ==
    res.op = "goal" =>
        \A S \in SUBSET (1..Len(res.records)) :
            LET part == CalculateGoalProgress(res.goal,
                            Restrict(res.records, S, 1), res.startDate,
                            res.isWeekly, now)
            IN  /\ AtLeast(res.value.Percentage, part.Percentage)
                /\ res.value.Remaining <= part.Remaining

\* two sessions counted, one of them without a completed pomodoro
C19_Witness ==
    /\ res.op = "goal"
    /\ res.goal = 2
    /\ Len(res.records) = 2
    /\ res.records[1].CompletedPomos = 0
    /\ res.records[2].CompletedPomos = 1
    /\ res.value.Remaining = 1

\* ------------------------------------------------------ CalculateStreak
\* time.Time{}: before every instant of the model
ZeroTime == At(Date(0 - 1, 1, 1), 0)

\* t.Format("2006-01-02"): the calendar date of t
DateKey(t) ==
    LET d == DayOf(t)
    IN  <<YearOf(d), MonthOf(d), DayOfMonth(d)>>

\* time.Parse("2006-01-02", dateStr): midnight UTC of that date
ParseDate(dateStr) == At(Date(dateStr[1], dateStr[2], dateStr[3]), 0)

\* the keys of dateSet
DateSet(records) ==
    {DateKey(records[i].Date) :
        i \in {j \in 1..Len(records) : records[j].CompletedPomos > 0}}

RECURSIVE LastActive(_, _)
LastActive(records, lastActive) ==
    IF records = <<>> THEN lastActive
    ELSE LET record == Head(records)
         IN  IF record.CompletedPomos > 0 /\ record.Date > lastActive
             THEN LastActive(Tail(records), record.Date)
             ELSE LastActive(Tail(records), lastActive)

\* the sort of `dates`: for i, for j > i, swap when dates[i] is after dates[j]
RECURSIVE SortInner(_, _, _)
SortInner(dates, i, j) ==
    IF j > Len(dates) THEN dates
    ELSE IF dates[i] > dates[j]
         THEN SortInner([dates EXCEPT ![i] = dates[j], ![j] = dates[i]],
                        i, j + 1)
         ELSE SortInner(dates, i, j + 1)

RECURSIVE SortDates(_, _)
SortDates(dates, i) ==
    IF i > Len(dates) THEN dates
    ELSE SortDates(SortInner(dates, i, i + 1), i + 1)

\* the walk back from yesterday while the date is in dateSet
RECURSIVE CountBack(_, _, _)
CountBack(dateSet, checkDate, currentStreak) ==
    IF DateKey(checkDate) \notin dateSet THEN currentStreak
    ELSE CountBack(dateSet, AddDate(checkDate, 0, 0, 0 - 1),
                   currentStreak + 1)

\* no `if dateSet[todayStr]`: a day without a session does not end the streak
CurrentStreakAt_DayOfGrace(dateSet, today) ==
    CountBack(dateSet, AddDate(today, 0, 0, 0 - 1),
              IF DateKey(today) \in dateSet THEN 1 ELSE 0)

CurrentStreakAt(dateSet, today) ==
    IF DateKey(today) \in dateSet
    THEN CountBack(dateSet, AddDate(today, 0, 0, 0 - 1), 1)
    ELSE 0

\* no final `if tempStreak > longestStreak` after the loop
RECURSIVE LongestLoop_NoFinalCheck(_, _, _, _)
LongestLoop_NoFinalCheck(dates, i, tempStreak, longestStreak) ==
    IF i > Len(dates)
    THEN longestStreak
    ELSE IF dates[i] - dates[i - 1] = HoursPerDay * MinutesPerHour
         THEN LongestLoop_NoFinalCheck(dates, i + 1, tempStreak + 1,
                                       longestStreak)
         ELSE LongestLoop_NoFinalCheck(dates, i + 1, 1,
                          IF tempStreak > longestStreak THEN tempStreak
                          ELSE longestStreak)

\* the loop over the sorted dates, from position i on
RECURSIVE LongestLoop(_, _, _, _)
LongestLoop(dates, i, tempStreak, longestStreak) ==
    IF i > Len(dates)
    THEN IF tempStreak > longestStreak THEN tempStreak ELSE longestStreak
    ELSE IF dates[i] - dates[i - 1] = HoursPerDay * MinutesPerHour
         THEN LongestLoop(dates, i + 1, tempStreak + 1, longestStreak)
         ELSE LongestLoop(dates, i + 1, 1,
                          IF tempStreak > longestStreak THEN tempStreak
                          ELSE longestStreak)

LongestRun(dates) == LongestLoop(dates, 2, 1, 0)

\* the two counts exchanged in the StreakInfo literal
StreakResult_Swapped(currentStreak, longestStreak, lastActive) ==
    [CurrentStreak |-> IF currentStreak > longestStreak THEN currentStreak
                       ELSE longestStreak,
     LongestStreak |-> currentStreak,
     LastActiveDate |-> lastActive]

\* the widening of longestStreak and the StreakInfo returned
StreakResult(currentStreak, longestStreak, lastActive) ==
    [CurrentStreak |-> currentStreak,
     LongestStreak |-> IF currentStreak > longestStreak THEN currentStreak
                       ELSE longestStreak,
     LastActiveDate |-> lastActive]

NoStreak ==
    [CurrentStreak |-> 0, LongestStreak |-> 0, LastActiveDate |-> ZeroTime]

\* `order`: the order in which `range dateSet` yields the keys
CalculateStreak(rows, today, order) ==
    LET records == LoadRecords(rows)
        dateSet == DateSet(records)
        dates == SortDates([i \in 1..Len(order) |-> ParseDate(order[i])], 1)
    IN  IF Len(records) = 0 THEN NoStreak
        ELSE IF dateSet = {} THEN NoStreak
        ELSE StreakResult(CurrentStreakAt(dateSet, today), LongestRun(dates),
                          LastActive(records, ZeroTime))

\* ------------------------------------------------ specification: streaks
MaxStreakDays == 3
MaxStreakRecords == 3

\* the first day is 27 February, so that the days run into March
StreakFirstDay == Date(0, 2, 27)

InitStreak ==
    /\ NoTimerRun
    /\ now = At(StreakFirstDay, 9)
    /\ store = <<>>
    /\ res = NoResult

\* a day passes
NextDay ==
    /\ DayOf(now) < StreakFirstDay + MaxStreakDays
    /\ now' = now + MinutesPerDay
    /\ res' = NoResult
    /\ UNCHANGED <<timerVars, store>>

\* a row of the sessions table dated now, whatever wrote it
SaveToday(pomos) ==
    /\ Len(store) < MaxStreakRecords
    /\ store' = Append(store, SessionRecord(now, pomos, 0))
    /\ res' = NoResult
    /\ UNCHANGED <<timerVars, now>>

Streak ==
    /\ \E order \in Orderings(DateSet(LoadRecords(store))) :
          res' = [op |-> "streak",
                  value |-> CalculateStreak(store, now, order)]
    /\ UNCHANGED <<timerVars, now, store>>

NextStreak ==
    \/ NextDay
    \/ \E pomos \in {0, 1} : SaveToday(pomos)
    \/ Streak

SpecStreak == InitStreak /\ [][NextStreak]_vars

\* C20: the longest streak reported is at least the current streak, which
\* is at least 0.
C20_LongestCoversCurrent ==
    res.op = "streak" =>
        /\ res.value.LongestStreak >= res.value.CurrentStreak
        /\ res.value.CurrentStreak >= 0

\* two active days in a row, a day off, then today: current 1, longest 2
C20_Witness ==
    /\ res.op = "streak"
    /\ Len(store) = 3
    /\ res.value.CurrentStreak = 1
    /\ res.value.LongestStreak = 2

\* the days on which some stored row has a completed pomodoro
ActiveDays ==
    {DayOf(store[i].Date) :
        i \in {j \in 1..Len(store) : store[j].CompletedPomos > 0}}

\* the days d, d + 1, .., d + k - 1 are all active
ActiveRun(d, k) == \A j \in 0..(k - 1) : d + j \in ActiveDays

\* C21: the current streak is the number of active days in a row that end
\* today; it is 0 when today is not active, whatever the days before.
C21_CurrentStreak ==
    res.op = "streak" =>
        LET today == DayOf(now)
            k == res.value.CurrentStreak
        IN  /\ k >= 0
            /\ ActiveRun(today - k + 1, k)
            /\ (today - k) \notin ActiveDays
            /\ today \notin ActiveDays => k = 0

\* three active days in a row, the last of them today
C21_Witness ==
    /\ res.op = "streak"
    /\ ActiveDays = {DayOf(now) - 2, DayOf(now) - 1, DayOf(now)}
    /\ res.value.CurrentStreak = 3

\* C22: the longest streak is the length of the longest run of consecutive
\* active days; rows without a completed pomodoro add no day and several
\* rows of one day count once.
C22_LongestStreak ==
    res.op = "streak" =>
        LET k == res.value.LongestStreak
            Runs(n) == {d \in ActiveDays : ActiveRun(d, n)}
        IN  /\ k >= 0
            /\ k > 0 => Runs(k) # {}
            /\ Runs(k + 1) = {}
            /\ (k = 0) <=> (ActiveDays = {})

\* two active days with a day between them that has only a row without a
\* completed pomodoro, and nothing today
C22_Witness ==
    /\ res.op = "streak"
    /\ Len(store) = 3
    /\ store[2].CompletedPomos = 0
    /\ ActiveDays = {DayOf(store[2].Date) - 1, DayOf(store[2].Date) + 1}
    /\ DayOf(now) \notin ActiveDays
    /\ res.value.LongestStreak = 1

\* ------------------------------------------------------------- goals set
\* cmd/goals.go setGoalsCmd over ~/.pomo/goals.json.  fs.dir tells whether
\* ~/.pomo exists, fs.goals is the goal document in it.  Every invocation is
\* a process of its own; res keeps its flags, what it printed and its exit
\* status.

MaxGoalFlag == 2

\* getGoalsFilePath: os.MkdirAll(~/.pomo) on the way to the path
getGoalsFilePath(f) == [f EXCEPT !.dir = TRUE]

\* LoadGoalConfig: a missing file is a disabled configuration
LoadGoalConfig(f) ==
    IF f.goals.exists
    THEN [Enabled |-> f.goals.Enabled,
          DailyPomosGoal |-> f.goals.DailyPomosGoal,
          WeeklyPomosGoal |-> f.goals.WeeklyPomosGoal]
    ELSE [Enabled |-> FALSE, DailyPomosGoal |-> 0, WeeklyPomosGoal |-> 0]

\* SaveGoalConfig: the document is written whole
SaveGoalConfig(f, c) ==
    [getGoalsFilePath(f) EXCEPT
        !.goals = [Enabled |-> c.Enabled,
                   DailyPomosGoal |-> c.DailyPomosGoal,
                   WeeklyPomosGoal |-> c.WeeklyPomosGoal,
                   exists |-> TRUE]]

\* the test the command makes for "no goal specified"
NoGoalSpecified(goalDaily, goalWeekly) == goalDaily = 0 /\ goalWeekly = 0

\* the flags' values merged into the loaded configuration
UpdateConfig(c, goalDaily, goalWeekly) ==
    [Enabled |-> TRUE,
     DailyPomosGoal |-> IF goalDaily > 0 THEN goalDaily ELSE c.DailyPomosGoal,
     WeeklyPomosGoal |-> IF goalWeekly > 0 THEN goalWeekly
                         ELSE c.WeeklyPomosGoal]

GoalsOutcome(goalDaily, goalWeekly, out, code) ==
    [op |-> "goalsSet", daily |-> goalDaily, weekly |-> goalWeekly,
     console |-> out, exitCode |-> code]

\* pomo goals set --daily goalDaily --weekly goalWeekly; loadErr and saveErr
\* are the file system refusing the read or the write
SetGoals(goalDaily, goalWeekly, loadErr, saveErr) ==
    LET loaded == getGoalsFilePath(fs)
        c      == LoadGoalConfig(loaded)
    IN  /\ IF loadErr
           THEN /\ fs' = loaded
                /\ res' = GoalsOutcome(goalDaily, goalWeekly, "errLoad", 1)
           ELSE IF NoGoalSpecified(goalDaily, goalWeekly)
           THEN /\ fs' = loaded
                /\ res' = GoalsOutcome(goalDaily, goalWeekly, "errNoGoal", 1)
           ELSE IF saveErr
           THEN /\ fs' = loaded
                /\ res' = GoalsOutcome(goalDaily, goalWeekly, "errSave", 1)
           ELSE /\ fs' = SaveGoalConfig(loaded,
                             UpdateConfig(c, goalDaily, goalWeekly))
                /\ res' = GoalsOutcome(goalDaily, goalWeekly, "updated", 0)
        /\ UNCHANGED <<runVars, now, store>>

\* pomo/storage.go NewStorage, run by any command that opens the database,
\* makes ~/.pomo as well
NewStorage ==
    /\ ~fs.dir
    /\ fs' = [fs EXCEPT !.dir = TRUE]
    /\ res' = NoResult
    /\ UNCHANGED <<runVars, now, store>>

InitGoalsCmd ==
    /\ NoTimerRun
    /\ now = 0
    /\ store = <<>>
    /\ res = NoResult

NextGoalsCmd ==
    \/ NewStorage
    \/ \E goalDaily \in (-1)..MaxGoalFlag, goalWeekly \in (-1)..MaxGoalFlag,
          loadErr \in BOOLEAN, saveErr \in BOOLEAN :
            SetGoals(goalDaily, goalWeekly, loadErr, saveErr)

SpecGoalsCmd == InitGoalsCmd /\ [][NextGoalsCmd]_vars

\* C24: goals set with neither a daily nor a weekly value above zero reports
\* an error, exits non-zero and leaves ~/.pomo and the goal document as they
\* were.
C24_NoGoalRejected ==
    [][(res'.op = "goalsSet" /\ res'.daily <= 0 /\ res'.weekly <= 0
        /\ (res' # res \/ fs' # fs))
       => /\ res'.console \in {"errNoGoal", "errLoad"}
          /\ res'.exitCode # 0
          /\ fs' = fs]_vars

\* ------------------------------------------------ the date column as text
\* SaveRecord stores record.Date.Format(time.RFC3339) and the queries bind
\* since.Format(time.RFC3339): SQLite compares the column and the
\* parameters as text.  A time.Time is an instant with the UTC offset of
\* its location, [instant, offset] in minutes; its RFC3339 text is the wall
\* clock followed by "+hh:mm", "-hh:mm" or "Z".

MaxStoredRows == 2

\* the rank of the character that opens the zone suffix: '+' < '-' < 'Z'
SuffixRank(offset) == IF offset > 0 THEN 0 ELSE IF offset < 0 THEN 1 ELSE 2

\* t.Format(time.RFC3339): the fixed-width wall clock, then the suffix
FormatRFC3339(t) ==
    [wall |-> t.instant + t.offset, rank |-> SuffixRank(t.offset),
     digits |-> Abs(t.offset)]

\* time.Parse(time.RFC3339, text)
ParseRFC3339(text) ==
    LET offset == IF text.rank = 0 THEN text.digits
                  ELSE IF text.rank = 1 THEN 0 - text.digits ELSE 0
    IN  [instant |-> text.wall - offset, offset |-> offset]

\* a <= b for two RFC3339 texts, character by character
TextLeq(a, b) ==
    \/ a.wall < b.wall
    \/ a.wall = b.wall /\ a.rank < b.rank
    \/ a.wall = b.wall /\ a.rank = b.rank /\ a.digits <= b.digits

\* the row INSERTed for a record
RowOf(record) ==
    [date |-> FormatRFC3339(record.Date),
     completed_pomos |-> record.CompletedPomos]

\* rows.Scan and time.Parse give the record back
RecordOf(row) ==
    [Date |-> ParseRFC3339(row.date), CompletedPomos |-> row.completed_pomos]

\* ORDER BY date DESC over text; rows of equal text stay in insertion order
RECURSIVE InsertByText(_, _)
InsertByText(sorted, row) ==
    IF sorted = <<>> THEN <<row>>
    ELSE IF TextLeq(row.date, Head(sorted).date)
         THEN <<Head(sorted)>> \o InsertByText(Tail(sorted), row)
         ELSE <<row>> \o sorted

RECURSIVE OrderByTextDesc(_)
OrderByTextDesc(rows) ==
    IF rows = <<>> THEN <<>>
    ELSE InsertByText(OrderByTextDesc(SubSeq(rows, 1, Len(rows) - 1)),
                      rows[Len(rows)])

ScanAll(rows) == [i \in 1..Len(rows) |-> RecordOf(rows[i])]

\* SELECT ... FROM sessions ORDER BY date DESC
LoadRecordsSQL(rows) == ScanAll(OrderByTextDesc(rows))

\* SELECT ... WHERE date >= ? ORDER BY date DESC
GetRecordsSinceSQL(rows, since) ==
    LET bound == FormatRFC3339(since)
    IN  ScanAll(OrderByTextDesc(
            SelectSeq(rows, LAMBDA row : TextLeq(bound, row.date))))

\* SELECT ... WHERE date >= ? AND date <= ? ORDER BY date DESC
GetRecordsInRangeSQL(rows, start, end) ==
    LET lower == FormatRFC3339(start)
        upper == FormatRFC3339(end)
    IN  ScanAll(OrderByTextDesc(
            SelectSeq(rows, LAMBDA row : /\ TextLeq(lower, row.date)
                                         /\ TextLeq(row.date, upper))))

\* ------------------------------------------------ specification: storage
\* Sessions and queries within one hour of one night, by clocks on UTC,
\* one hour ahead of it and one hour behind it (a journey, or the hour a
\* zone repeats when summer time ends).
StorageInstants == {At(1, 0), At(1, 0) + MinutesPerHour \div 2}

StorageOffsets == {0 - MinutesPerHour, 0, MinutesPerHour}

StorageTimes ==
    {[instant |-> t, offset |-> o] : t \in StorageInstants, o \in StorageOffsets}

InitStorage ==
    /\ NoTimerRun
    /\ now = At(1, 0)
    /\ store = <<>>
    /\ res = NoResult

\* storage.SaveRecord of a session started at t
SaveRecordSQL(t) ==
    /\ Len(store) < MaxStoredRows
    /\ store' = Append(store, RowOf([Date |-> t, CompletedPomos |-> 1]))
    /\ res' = NoResult
    /\ UNCHANGED <<timerVars, now>>

QueryAll ==
    /\ res' = [op |-> "load", value |-> LoadRecordsSQL(store)]
    /\ UNCHANGED <<timerVars, now, store>>

QuerySince(since) ==
    /\ res' = [op |-> "since", since |-> since,
               value |-> GetRecordsSinceSQL(store, since)]
    /\ UNCHANGED <<timerVars, now, store>>

QueryInRange(start, end) ==
    /\ res' = [op |-> "range", start |-> start, end |-> end,
               value |-> GetRecordsInRangeSQL(store, start, end)]
    /\ UNCHANGED <<timerVars, now, store>>

NextStorage ==
    \/ \E t \in StorageTimes : SaveRecordSQL(t)
    \/ QueryAll
    \/ \E since \in StorageTimes : QuerySince(since)
    \/ \E start \in StorageTimes, end \in StorageTimes : QueryInRange(start, end)

SpecStorage == InitStorage /\ [][NextStorage]_vars

\* the records saved so far, and the result a query must give: the records
\* satisfying Keep, each as often as it was saved, latest instant first
Saved == ScanAll(store)

Descending(records) ==
    \A i \in 1..(Len(records) - 1) :
        records[i].Date.instant >= records[i + 1].Date.instant

Times(records, r) == Cardinality({i \in 1..Len(records) : records[i] = r})

ExactlyThose(records, Keep(_)) ==
    /\ \A i \in 1..Len(records) : Keep(records[i])
    /\ \A i \in 1..Len(Saved) :
           Times(records, Saved[i]) =
               IF Keep(Saved[i]) THEN Times(Saved, Saved[i]) ELSE 0
    /\ Descending(records)

\* C23: LoadRecords returns every saved record, GetRecordsSince(t) exactly
\* those at or after t, GetRecordsInRange(a, b) exactly those from a to b,
\* each latest first.
C23_QueriesExact ==
    /\ res.op = "load" => ExactlyThose(res.value, LAMBDA r : TRUE)
    /\ res.op = "since" =>
           ExactlyThose(res.value,
                        LAMBDA r : r.Date.instant >= res.since.instant)
    /\ res.op = "range" =>
           ExactlyThose(res.value,
                        LAMBDA r : /\ r.Date.instant >= res.start.instant
                                   /\ r.Date.instant <= res.end.instant)

\* ------------------------------------------------------ detailed report
\* pomo report --all --detailed: DisplayDetailedReport walks stats.Records
\* from its last element back to the element at `start`.

RecentSessions == 10

MaxDetailedRows == 11

\* the records printed under "Recent Sessions", in the order printed
DisplayDetailedReport(reportStats) ==
    LET n     == Len(reportStats.Records)
        start == IF n - RecentSessions < 0 THEN 0 ELSE n - RecentSessions
    IN  [k \in 1..(n - start) |-> reportStats.Records[n - k + 1]]

InitDetailed ==
    /\ NoTimerRun
    /\ now = At(0, 9)
    /\ store = <<>>
    /\ res = NoResult

\* a session of one or two pomodoros ends and is saved; the next one is an
\* hour later
SaveSession(pomos) ==
    /\ Len(store) < MaxDetailedRows
    /\ store' = Append(store, SessionRecord(now, pomos, 0))
    /\ now' = now + MinutesPerHour
    /\ res' = NoResult
    /\ UNCHANGED timerVars

Detailed ==
    /\ res' = [op |-> "detailed",
               input |-> LoadRecords(store),
               value |-> DisplayDetailedReport(GenerateReport(LoadRecords(store)))]
    /\ UNCHANGED <<timerVars, now, store>>

NextDetailed ==
    \/ \E pomos \in {1, 2} : SaveSession(pomos)
    \/ Detailed

SpecDetailed == InitDetailed /\ [][NextDetailed]_vars

\* C25: with more than ten records loaded, the detailed report lists the ten
\* with the latest timestamps, the head of the descending list.
C25_LatestTen ==
    (res.op = "detailed" /\ Len(res.input) > RecentSessions) =>
        {res.value[k] : k \in 1..Len(res.value)} =
            {res.input[i] : i \in 1..RecentSessions}

\* ------------------------------------------------- timer: later claims
\* C26: the only listener alive at any moment is that of the interval whose
\* countdown is running; none outlives its interval.
C26_OneListener ==
    \A l \in alive : InCountdown /\ l = interval

\* C27: a line read while the continue prompt is waiting is read by the
\* prompt.
C27_PromptGetsLine ==
    [][(pc = "prompt" /\ LineRead) => PromptTookLine]_vars

\* C28: a countdown ends as skipped only by taking the signal out of its own
\* channel; a listener that ends by sending puts its signal in the channel
\* of its own interval and in no other; and the channel of a listener still
\* alive is empty, so its one send finds the slot free.
C28_OwnChannelOnly ==
    [][/\ (IntervalEnded /\ ~LastEnded.completed) =>
              /\ Len(hist') \in signalled
              /\ Len(hist') \notin signalled'
       /\ \A l \in alive \ alive' : signalled' \ signalled \subseteq {l}
       /\ alive' \cap signalled' = {}]_vars

\* the first interval was skipped by its own listener; the listener of the
\* second sent its signal during the third, which ran to completion
C28_Witness ==
    /\ Len(hist) >= 3
    /\ ~hist[1].completed
    /\ hist[2].completed
    /\ hist[3].completed
    /\ 2 \in signalled
    /\ ~hist[2].pending

\* the ended intervals of the given kind and outcome
Ended(k, completed) ==
    Cardinality({i \in 1..Len(hist) :
                    hist[i].kind = k /\ hist[i].completed = completed})

\* C29: between the steps of a run the work time is CompletedPomos times the
\* work duration, the break time is the completed short and long breaks at
\* their durations, SkippedSessions is the skipped work intervals plus the
\* skipped breaks, and none of the four counters goes down.
C29_CountersAgree ==
    [][cmd' = "timer" =>
         /\ stats'.TotalWorkTime = stats'.CompletedPomos * config'.WorkDuration
         /\ stats'.TotalBreakTime =
                Ended("short", TRUE)' * config'.ShortBreakDuration
                + Ended("long", TRUE)' * config'.LongBreakDuration
         /\ stats'.SkippedSessions =
                Ended("work", FALSE)' + Ended("short", FALSE)'
                + Ended("long", FALSE)'
         /\ cmd = "timer" =>
                /\ stats'.CompletedPomos >= stats.CompletedPomos
                /\ stats'.TotalWorkTime >= stats.TotalWorkTime
                /\ stats'.TotalBreakTime >= stats.TotalBreakTime
                /\ stats'.SkippedSessions >= stats.SkippedSessions]_vars

\* a pomodoro and its long break ran out, then the next work interval and
\* its short break were both skipped
C29_Witness ==
    /\ cmd = "timer"
    /\ stats.CompletedPomos = 1
    /\ stats.TotalBreakTime = config.LongBreakDuration
    /\ stats.SkippedSessions = 2
    /\ Ended("work", FALSE) = 1
    /\ Ended("short", FALSE) = 1

\* C30: pomoCount stays within 0..PomosUntilLongBreak and never exceeds
\* CompletedPomos; while a work interval runs it is below
\* PomosUntilLongBreak, so the number announced for it, pomoCount + 1, is
\* within 1..PomosUntilLongBreak.
C30_CycleBounds ==
    cmd = "timer" =>
        /\ pomoCount \in 0..config.PomosUntilLongBreak
        /\ pomoCount <= stats.CompletedPomos
        /\ (InCountdown /\ kind = "work") =>
               /\ pomoCount < config.PomosUntilLongBreak
               /\ pomoCount + 1 \in 1..config.PomosUntilLongBreak

\* the second pomodoro of the second cycle is running
C30_Witness ==
    /\ InCountdown
    /\ kind = "work"
    /\ config.PomosUntilLongBreak = 2
    /\ pomoCount = 1
    /\ \E i \in 1..Len(hist) : hist[i].kind = "long"

====
